---- MODULE Spec2Model ----
(***************************************************************************)
(* GeoScripts: nearest-river matching (spatial_layer_processor.py) and     *)
(* point/river intersection (multithread_interesect_as_layer_bar.py),      *)
(* both driven by a thread-pool batch run over point files x river files.  *)
(*                                                                         *)
(* Geometry is modelled on axis-parallel boxes with integer coordinates in *)
(* degrees: a Point is a box with lo = hi, a river LineString is a box     *)
(* that is flat in one axis, a MultiPolygon is a filled box.  On such      *)
(* boxes shapely's nearest_points, centroid and intersects are exact       *)
(* integer computations.  Distances are kept squared (sqrt is monotone, so *)
(* comparisons and idxmin are unchanged).  Latitudes are multiples of 60   *)
(* degrees, where 1/cos is the integer given by SecLat.                    *)
(***************************************************************************)
EXTENDS Integers, Sequences, FiniteSets, Bags, TLC

VARIABLES
    \* ---- one call of process_layers, statement by statement (PipeSpec)
    p_pc,             \* position inside process_layers / create_new_layer
    p_fs,             \* the two input files: path -> file content
    p_args,           \* [river_path, point_path, save_path, radius]
    new_layer_name,   \* local of process_layers
    river_gdf,        \* local of create_new_layer
    point_gdf,        \* local of create_new_layer
    selected_rivers,  \* local of create_new_layer
    p_i,              \* how many geometries of point_gdf the for loop has consumed
    point,            \* loop variable of create_new_layer
    nearest_river,    \* local of create_new_layer: result of the last find_nearest_river
    p_exc,            \* the exception that left process_layers, if any
    p_outdir,         \* files below save_path: path -> file content
    \* ---- the batch run: main() and the executor's workers (Spec)
    script,           \* which of the two programs runs
    fs,               \* input files in os.walk order: sequence of [path, content]
    argv,             \* parsed command line
    pc,               \* position of the main thread
    verbose,          \* module global
    radius,           \* local of main (spatial_layer_processor.py only)
    files,            \* local of main
    rivers,           \* local of main
    total_tasks,      \* local of main
    max_workers,      \* ThreadPoolExecutor()._max_workers
    futures,          \* local of main: the submitted futures, in submission order
    yielded,          \* futures as_completed has already handed to the loop body
    pbar,             \* tqdm counter pbar.n
    counted,          \* history: per future, how many pbar.update() calls it caused
    stdout,           \* bag of printed lines
    outdir,           \* files below save_path: path -> file content
    writes            \* history: [task, path, content] of every to_file call

pvars == <<p_pc, p_fs, p_args, new_layer_name, river_gdf, point_gdf, selected_rivers,
           p_i, point, nearest_river, p_exc, p_outdir>>
bvars == <<script, fs, argv, pc, verbose, radius, files, rivers, total_tasks,
           max_workers, futures, yielded, pbar, counted, stdout, outdir, writes>>
vars == <<pvars, bvars>>

\* ------------------------------------------------------------------ bounds
MaxPoints == 2        \* features per generated point layer
MaxRivers == 2        \* features per generated river layer
MaxCpu == 1           \* os.cpu_count() ranges over 1..MaxCpu

\* --------------------------------------------------------------- constants
MetersPerDegree == 111000

\* ------------------------------------------------------------ python values
None == [kind |-> "None"]
Exc(type, msg) == [kind |-> "Exception", type |-> type, msg |-> msg]
Return(v) == [raised |-> FALSE, value |-> v, exc |-> None]
Raise(e) == [raised |-> TRUE, value |-> None, exc |-> e]
Float(v) == [kind |-> "float", value |-> v]
Str(v) == [kind |-> "str", value |-> v]   \* the text of a number

Min2(a, b) == IF a <= b THEN a ELSE b
Max2(a, b) == IF a >= b THEN a ELSE b
Clamp(v, lo, hi) == Max2(lo, Min2(v, hi))

\* -------------------------------------------------------------- geometries
Geom(type, lo, hi) == [type |-> type, lo |-> lo, hi |-> hi]
Pt(x, y) == Geom("Point", <<x, y>>, <<x, y>>)
Line(x0, y0, x1, y1) == Geom("LineString", <<x0, y0>>, <<x1, y1>>)
MPoly(x0, y0, x1, y1) == Geom("MultiPolygon", <<x0, y0>>, <<x1, y1>>)

\* shapely: geom.centroid
centroid(geom) ==
    Pt((geom.lo[1] + geom.hi[1]) \div 2, (geom.lo[2] + geom.hi[2]) \div 2)

\* shapely: nearest_points(point, geom)[1], the point of geom nearest to point
nearest_points(pt, geom) ==
    Pt(Clamp(pt.lo[1], geom.lo[1], geom.hi[1]), Clamp(pt.lo[2], geom.lo[2], geom.hi[2]))

\* shapely: point.distance(other), squared
distance(pt, other) ==
    (pt.lo[1] - other.lo[1]) * (pt.lo[1] - other.lo[1])
    + (pt.lo[2] - other.lo[2]) * (pt.lo[2] - other.lo[2])

\* shapely: point.buffer(r); a radius that is not positive gives the empty polygon
buffer(pt, r) == [type |-> "Buffer", center |-> pt, radius |-> r]

\* shapely: unary_union of a layer's geometries
unary_union(geoms) == [type |-> "Union", parts |-> {geoms[k] : k \in DOMAIN geoms}]

BoxesMeet(g, h) ==
    /\ g.lo[1] <= h.hi[1] /\ h.lo[1] <= g.hi[1]
    /\ g.lo[2] <= h.hi[2] /\ h.lo[2] <= g.hi[2]

\* shapely / geopandas: geom.intersects(other)
intersects(geom, other) ==
    CASE other.type = "Buffer" ->
            /\ other.radius > 0
            /\ distance(other.center, nearest_points(other.center, geom))
                   <= other.radius * other.radius
      [] other.type = "Union" -> \E part \in other.parts : BoxesMeet(geom, part)
      [] OTHER -> BoxesMeet(geom, other)

\* 1 / cos(radians(latitude)) at the latitudes of the model
SecLat(latitude) ==
    CASE latitude % 360 = 0 -> 1
      [] latitude % 360 = 60 -> 2
      [] latitude % 360 = 120 -> -2
      [] latitude % 360 = 180 -> -1
      [] latitude % 360 = 240 -> -2
      [] latitude % 360 = 300 -> 2

\* ------------------------------------------------------------ GeoDataFrames
CrsNone == "None"
Wgs84 == "EPSG:4326"
Shifted == "EPSG:shifted"
\* easting of each frame's origin; a reprojection moves coordinates by the difference
CrsOrigin(crs) == IF crs = Shifted THEN 60 ELSE 0

Garbage == [kind |-> "garbage"]
FeatureCollection(crs, features) ==
    [kind |-> "FeatureCollection", crs |-> crs, features |-> features]

Row(idx, geom) == [kind |-> "row", idx |-> idx, geometry |-> geom]
GeoDataFrame(rows, crs) == [crs |-> crs, rows |-> rows]

\* geopandas: gpd.read_file(path); rows get the RangeIndex 0..n-1
read_file(content) ==
    IF content.kind # "FeatureCollection"
    THEN Raise(Exc("DriverError", "not recognized as a supported file format"))
    ELSE Return(GeoDataFrame(
             [k \in DOMAIN content.features |-> Row(k - 1, content.features[k])],
             content.crs))

MoveGeom(geom, dx) ==
    [geom EXCEPT !.lo = <<geom.lo[1] + dx, geom.lo[2]>>,
                 !.hi = <<geom.hi[1] + dx, geom.hi[2]>>]

\* geopandas: gdf.to_crs(crs)
to_crs(gdf, crs) ==
    IF gdf.crs = CrsNone \/ crs = CrsNone
    THEN Raise(Exc("ValueError", "Cannot transform naive geometries"))
    ELSE Return(GeoDataFrame(
             [k \in DOMAIN gdf.rows |->
                 [gdf.rows[k] EXCEPT !.geometry =
                     MoveGeom(gdf.rows[k].geometry, CrsOrigin(gdf.crs) - CrsOrigin(crs))]],
             crs))

\* geopandas: gdf.to_file(..., driver='GeoJSON'); the integer index is not written
to_file(gdf) ==
    FeatureCollection(gdf.crs, [k \in DOMAIN gdf.rows |-> gdf.rows[k].geometry])

\* ------------------------------------------------------------------- paths
\* A stem is the sequence of its underscore-free pieces: <<"a", "b">> is "a_b".
Path(dir, stem, ext) == [dir |-> dir, stem |-> stem, ext |-> ext]
lower(ext) == IF ext = ".GEOJSON" THEN ".geojson" ELSE ext
\* os.path.splitext(os.path.basename(path))[0]
splitext_basename(path) == path.stem


\* os.path.join(output_path, name + '.geojson')
output_file_of(output_path, name) == Path(output_path, name, ".geojson")

\* a directory as path -> content; writing replaces what the path held
WriteFile(dir, path, content) ==
    [q \in (DOMAIN dir) \cup {path} |-> IF q = path THEN content ELSE dir[q]]
EmptyDir == [q \in {} |-> Garbage]

\* ============================================== spatial_layer_processor.py

\* meters_to_degrees: str / int raises TypeError; the quotients are exact for
\* the radii of the model (multiples of MetersPerDegree)
meters_to_degrees(meters, latitude) ==
    IF meters.kind = "str"
    THEN Raise(Exc("TypeError", "unsupported operand type(s) for /: 'str' and 'int'"))
    ELSE Return([degrees_lat |-> meters.value \div MetersPerDegree,
                 degrees_lon |-> (meters.value * SecLat(latitude)) \div MetersPerDegree])

\* pandas: Series.idxmin(), the label of the first occurrence of the minimum
idxmin_last(rows, distances) ==
    rows[CHOOSE k \in DOMAIN distances :
            /\ \A j \in DOMAIN distances : distances[k] <= distances[j]
            /\ \A j \in DOMAIN distances : distances[j] = distances[k] => j <= k].idx

idxmin(rows, distances) ==
    rows[CHOOSE k \in DOMAIN distances :
            /\ \A j \in DOMAIN distances : distances[k] <= distances[j]
            /\ \A j \in DOMAIN distances : distances[j] = distances[k] => k <= j].idx

\* pandas: frame.loc[label]
loc(rows, label) == rows[CHOOSE k \in DOMAIN rows : rows[k].idx = label]

\* geopandas: rivers[rivers.intersects(buffer)]
rows_intersecting(rows, other) ==
    LET Keep(row) == intersects(row.geometry, other) IN SelectSeq(rows, Keep)

find_nearest_river(pt, rivers_gdf, radius_meters) ==
    LET latitude == pt.lo[2]
        conv == meters_to_degrees(radius_meters, latitude)
    IN  IF conv.raised THEN conv
        ELSE
        LET buf == buffer(pt, Max2(conv.value.degrees_lat, conv.value.degrees_lon))
            rivers_in_buffer == rows_intersecting(rivers_gdf.rows, buf)
            distances == [k \in DOMAIN rivers_in_buffer |->
                             distance(pt, nearest_points(pt, rivers_in_buffer[k].geometry))]
        IN  IF rivers_in_buffer # <<>>
            THEN Return(loc(rivers_in_buffer, idxmin(rivers_in_buffer, distances)))
            ELSE Return(None)

\* process_layers, lines 168-170: f"{layer_name}_{river_name}"
layer_name_of(river_path, point_path) ==
    splitext_basename(point_path) \o splitext_basename(river_path)

\* create_new_layer, line 133: MultiPolygon -> centroid
centroids(gdf) ==
    [gdf EXCEPT !.rows =
        [k \in DOMAIN gdf.rows |->
            IF gdf.rows[k].geometry.type = "MultiPolygon"
            THEN [gdf.rows[k] EXCEPT !.geometry = centroid(gdf.rows[k].geometry)]
            ELSE gdf.rows[k]]]

\* ---- one call of process_layers, statement by statement

P_process_layers ==
    /\ p_pc = "process_layers"
    /\ new_layer_name' = layer_name_of(p_args.river_path, p_args.point_path)
    /\ p_pc' = "read_river"
    /\ UNCHANGED <<p_fs, p_args, river_gdf, point_gdf, selected_rivers, p_i, point,
                   nearest_river, p_exc, p_outdir>>

P_read_river ==
    /\ p_pc = "read_river"
    /\ LET r == read_file(p_fs[p_args.river_path])
       IN  IF r.raised
           THEN p_exc' = r.exc /\ p_pc' = "raised" /\ UNCHANGED river_gdf
           ELSE river_gdf' = r.value /\ p_pc' = "read_point" /\ UNCHANGED p_exc
    /\ UNCHANGED <<p_fs, p_args, new_layer_name, point_gdf, selected_rivers, p_i, point,
                   nearest_river, p_outdir>>

P_read_point ==
    /\ p_pc = "read_point"
    /\ LET r == read_file(p_fs[p_args.point_path])
       IN  IF r.raised
           THEN p_exc' = r.exc /\ p_pc' = "raised" /\ UNCHANGED point_gdf
           ELSE point_gdf' = r.value /\ p_pc' = "crs" /\ UNCHANGED p_exc
    /\ UNCHANGED <<p_fs, p_args, new_layer_name, river_gdf, selected_rivers, p_i, point,
                   nearest_river, p_outdir>>

\* lines 121-124
P_crs ==
    /\ p_pc = "crs"
    /\ IF river_gdf.crs # point_gdf.crs
       THEN LET r == to_crs(point_gdf, river_gdf.crs)
            IN  IF r.raised
                THEN p_exc' = r.exc /\ p_pc' = "raised" /\ UNCHANGED point_gdf
                ELSE point_gdf' = r.value /\ p_pc' = "centroid" /\ UNCHANGED p_exc
       ELSE p_pc' = "centroid" /\ UNCHANGED <<point_gdf, p_exc>>
    /\ selected_rivers' = <<>>
    /\ UNCHANGED <<p_fs, p_args, new_layer_name, river_gdf, p_i, point, nearest_river,
                   p_outdir>>

\* line 133
P_centroid ==
    /\ p_pc = "centroid"
    /\ point_gdf' = centroids(point_gdf)
    /\ p_i' = 0
    /\ p_pc' = "for"
    /\ UNCHANGED <<p_fs, p_args, new_layer_name, river_gdf, selected_rivers, point,
                   nearest_river, p_exc, p_outdir>>

\* list.append
append_reversed(lst, item) == <<item>> \o lst
append(lst, item) == lst \o <<item>>

\* lines 136-143, saving after every match instead of once after the loop
P_for_incremental ==
    /\ p_pc = "for"
    /\ p_i < Len(point_gdf.rows)
    /\ LET pt == point_gdf.rows[p_i + 1].geometry
           r == find_nearest_river(pt, river_gdf, p_args.radius)
       IN  /\ point' = pt
           /\ p_i' = p_i + 1
           /\ IF pt.type = "Point" /\ r.raised
              THEN /\ p_exc' = r.exc /\ p_pc' = "raised"
                   /\ UNCHANGED <<nearest_river, selected_rivers, p_outdir>>
              ELSE IF pt.type = "Point" /\ r.value # None
              THEN /\ nearest_river' = r.value
                   /\ selected_rivers' = selected_rivers \o <<r.value>>
                   /\ p_outdir' = WriteFile(p_outdir,
                                     output_file_of(p_args.save_path, new_layer_name),
                                     FeatureCollection(river_gdf.crs,
                                         [k \in DOMAIN selected_rivers' |->
                                             selected_rivers'[k].geometry]))
                   /\ UNCHANGED <<p_exc, p_pc>>
              ELSE UNCHANGED <<nearest_river, selected_rivers, p_exc, p_pc, p_outdir>>
    /\ UNCHANGED <<p_fs, p_args, new_layer_name, river_gdf, point_gdf>>

\* lines 136-143: one iteration of the for loop
P_for ==
    /\ p_pc = "for"
    /\ p_i < Len(point_gdf.rows)
    /\ LET pt == point_gdf.rows[p_i + 1].geometry
       IN  /\ point' = pt
           /\ p_i' = p_i + 1
           /\ IF pt.type = "Point"
              THEN LET r == find_nearest_river(pt, river_gdf, p_args.radius)
                   IN  IF r.raised
                       THEN /\ p_exc' = r.exc /\ p_pc' = "raised"
                            /\ UNCHANGED <<nearest_river, selected_rivers>>
                       ELSE /\ nearest_river' = r.value
                            /\ selected_rivers' =
                                   IF r.value # None
                                   THEN append(selected_rivers, r.value)
                                   ELSE selected_rivers
                            /\ UNCHANGED <<p_exc, p_pc>>
              ELSE UNCHANGED <<nearest_river, selected_rivers, p_exc, p_pc>>
    /\ UNCHANGED <<p_fs, p_args, new_layer_name, river_gdf, point_gdf, p_outdir>>

\* save_layer_as_geojson: one to_file call
save_layer_as_geojson(dir, gdf, output_path, name) ==
    WriteFile(dir, output_file_of(output_path, name), to_file(gdf))

\* lines 145-157: after the loop
P_finish ==
    /\ p_pc = "for"
    /\ p_i = Len(point_gdf.rows)
    /\ IF selected_rivers = <<>>
       THEN UNCHANGED p_outdir
       ELSE p_outdir' = save_layer_as_geojson(p_outdir,
                            GeoDataFrame(selected_rivers, river_gdf.crs),
                            p_args.save_path, new_layer_name)
    /\ p_pc' = "returned"
    /\ UNCHANGED <<p_fs, p_args, new_layer_name, river_gdf, point_gdf, selected_rivers,
                   p_i, point, nearest_river, p_exc>>


\* ---- the inputs of one call

SeqsUpTo(S, n) == UNION {[1..k -> S] : k \in 0..n}

\* geometries of generated point layers: latitudes 0 and 60, a MultiPolygon whose
\* centroid lies at latitude 120, and a LineString (neither Point nor MultiPolygon)
PointGeoms == {Pt(0, 0), Pt(0, 60), MPoly(-60, 60, 60, 180), Line(0, 0, 60, 0)}

\* geometries of generated river layers
RiverGeoms == {Line(60, 0, 60, 120), Line(-60, -60, -60, 0), Line(0, 120, 60, 120),
               Line(180, 0, 180, 60)}

\* search radii: 0 m, 45 and 75 degrees of latitude in meters, and the text that
\* argparse hands over for --radius
Radii == {Float(0), Float(45 * MetersPerDegree), Float(75 * MetersPerDegree),
          Str(75 * MetersPerDegree)}

PointFiles ==
    {Garbage} \cup {FeatureCollection(crs, g) :
                       crs \in {Wgs84, Shifted, CrsNone}, g \in SeqsUpTo(PointGeoms, MaxPoints)}
RiverFiles ==
    {Garbage} \cup {FeatureCollection(Wgs84, g) : g \in SeqsUpTo(RiverGeoms, MaxRivers)}

P_river_path == Path(<<"riv">>, <<"r">>, ".geojson")
P_point_path == Path(<<"pts">>, <<"p">>, ".geojson")
P_save_path == <<"out">>

NoFrame == GeoDataFrame(<<>>, CrsNone)

BatchIdle ==
    /\ script = "none" /\ fs = {} /\ argv = None /\ pc = "idle" /\ verbose = FALSE
    /\ radius = None /\ files = <<>> /\ rivers = <<>> /\ total_tasks = 0
    /\ max_workers = 0 /\ futures = <<>> /\ yielded = {} /\ pbar = 0
    /\ counted = <<>> /\ stdout = EmptyBag /\ outdir = EmptyDir /\ writes = {}

PipeInit ==
    /\ p_pc = "process_layers"
    /\ \E rf \in RiverFiles, pf \in PointFiles :
           p_fs = (P_river_path :> rf) @@ (P_point_path :> pf)
    /\ \E r \in Radii :
           p_args = [river_path |-> P_river_path, point_path |-> P_point_path,
                     save_path |-> P_save_path, radius |-> r]
    /\ new_layer_name = <<>>
    /\ river_gdf = NoFrame
    /\ point_gdf = NoFrame
    /\ selected_rivers = <<>>
    /\ p_i = 0
    /\ point = None
    /\ nearest_river = None
    /\ p_exc = None
    /\ p_outdir = EmptyDir
    /\ BatchIdle

PipeNext ==
    \/ P_process_layers /\ UNCHANGED bvars
    \/ P_read_river /\ UNCHANGED bvars
    \/ P_read_point /\ UNCHANGED bvars
    \/ P_crs /\ UNCHANGED bvars
    \/ P_centroid /\ UNCHANGED bvars
    \/ P_for /\ UNCHANGED bvars
    \/ P_finish /\ UNCHANGED bvars

PipeSpec == PipeInit /\ [][PipeNext]_vars


\* ======================= process_layers as one call (what a worker thread runs)

\* stdout lines; the numeric diagnostics of verbose mode are not modelled
Line1(text, arg) == [text |-> text, arg |-> arg]

\* what a call of process_layers did: how it ended, the exception that left it,
\* the file it wrote (to_file is one write) and the lines it prints when verbose
Outcome(ended, exc, path, content, lines) ==
    [ended |-> ended, exc |-> exc, path |-> path, content |-> content, lines |-> lines]
Raised(exc, lines) == Outcome("raised", exc, None, None, lines)

\* lines 136-143: the for loop from index k on, selected so far in acc
RECURSIVE select_rivers(_, _, _, _, _)
select_rivers(rows, k, rivers_gdf, radius_meters, acc) ==
    IF k > Len(rows) THEN Return(acc)
    ELSE IF rows[k].geometry.type = "Point"
    THEN LET r == find_nearest_river(rows[k].geometry, rivers_gdf, radius_meters)
         IN  IF r.raised THEN r
             ELSE select_rivers(rows, k + 1, rivers_gdf, radius_meters,
                                IF r.value # None THEN append(acc, r.value) ELSE acc)
    ELSE select_rivers(rows, k + 1, rivers_gdf, radius_meters, acc)

\* lines 121-122 (both programs): reproject the points when the CRS differ
same_crs(rivers_gdf, points_gdf) ==
    IF rivers_gdf.crs # points_gdf.crs THEN to_crs(points_gdf, rivers_gdf.crs)
    ELSE Return(points_gdf)

\* spatial_layer_processor.py: create_new_layer
create_new_layer(river_content, point_content, name, save_path, radius_meters) ==
    LET said == <<Line1("Processing", name)>>
        rg == read_file(river_content)
        pg == read_file(point_content)
    IN  IF rg.raised THEN Raised(rg.exc, said)
        ELSE IF pg.raised THEN Raised(pg.exc, said)
        ELSE
        LET pc2 == same_crs(rg.value, pg.value)
        IN  IF pc2.raised THEN Raised(pc2.exc, said)
            ELSE
            LET sel == select_rivers(centroids(pc2.value).rows, 1, rg.value,
                                     radius_meters, <<>>)
            IN  IF sel.raised THEN Raised(sel.exc, said)
                ELSE IF sel.value = <<>>
                THEN Outcome("empty", None, None, None,
                             said \o <<Line1("No features selected for", name)>>)
                ELSE Outcome("saved", None, output_file_of(save_path, name),
                             to_file(GeoDataFrame(sel.value, rg.value.crs)),
                             said \o <<Line1("Layer saved as GeoJSON", name)>>)

\* multithread_interesect_as_layer_bar.py: create_new_layer
create_new_layer_bar(river_content, point_content, name, save_path) ==
    LET rg == read_file(river_content)
        pg == read_file(point_content)
    IN  IF rg.raised THEN Raised(rg.exc, <<>>)
        ELSE IF pg.raised THEN Raised(pg.exc, <<>>)
        ELSE
        LET pc2 == same_crs(rg.value, pg.value)
        IN  IF pc2.raised THEN Raised(pc2.exc, <<>>)
            ELSE
            LET union == unary_union([k \in DOMAIN pc2.value.rows |->
                                         pc2.value.rows[k].geometry])
                selected == rows_intersecting(rg.value.rows, union)
            IN  IF selected = <<>>
                THEN Outcome("empty", None, None, None,
                             <<Line1("No features selected for", name)>>)
                ELSE Outcome("saved", None, output_file_of(save_path, name),
                             to_file(GeoDataFrame(selected, rg.value.crs)),
                             <<Line1("Layer saved as GeoJSON", name)>>)

\* open(path): the content of the file the path names
content_of(fsys, path) == fsys[CHOOSE k \in DOMAIN fsys : fsys[k].path = path].content

\* process_layers of the running program
process_layers(prog, fsys, river_path, point_path, save_path, radius_meters) ==
    IF prog = "spatial_layer_processor"
    THEN create_new_layer(content_of(fsys, river_path), content_of(fsys, point_path),
                          layer_name_of(river_path, point_path), save_path, radius_meters)
    ELSE create_new_layer_bar(content_of(fsys, river_path), content_of(fsys, point_path),
                              layer_name_of(river_path, point_path), save_path)

\* ========================================================= main(): the batch

\* os.walk below directory, keeping .geojson files; spatial_layer_processor.py
\* compares the lower-cased name, the other program the name as it is
IsPrefix(d, dir) == Len(d) <= Len(dir) /\ SubSeq(dir, 1, Len(d)) = d
list_files(prog, fsys, directory) ==
    LET Keep(e) ==
            /\ IsPrefix(directory, e.path.dir)
            /\ IF prog = "spatial_layer_processor"
               THEN lower(e.path.ext) = ".geojson"
               ELSE e.path.ext = ".geojson"
        kept == SelectSeq(fsys, Keep)
    IN  [k \in DOMAIN kept |-> kept[k].path]

\* ThreadPoolExecutor(): max_workers = min(32, os.cpu_count() + 4)
default_max_workers(cpu_count) == Min2(32, cpu_count + 4)

Future(river, file) ==
    [river |-> river, file |-> file, state |-> "pending", exc |-> None, ended |-> "no"]

Done(f) == f.state \in {"finished", "cancelled"}

\* print(...) under "if verbose": the lines join the bag of printed lines
RECURSIVE printed(_, _, _)
printed(out, on, lines) ==
    IF ~on \/ lines = <<>> THEN out
    ELSE printed(out (+) SetToBag({Head(lines)}), on, Tail(lines))

\* ---- the files on disk

PtsA == [path |-> Path(<<"pts", "a">>, <<"x">>, ".geojson"),
         content |-> FeatureCollection(Wgs84, <<Pt(60, 0)>>)]
PtsB == [path |-> Path(<<"pts", "b">>, <<"x">>, ".geojson"),
         content |-> FeatureCollection(Wgs84, <<Pt(0, 120)>>)]
PtsY == [path |-> Path(<<"pts">>, <<"y">>, ".geojson"),
         content |-> FeatureCollection(Wgs84, <<Line(0, 0, 0, 60)>>)]
RivR == [path |-> Path(<<"riv">>, <<"r">>, ".geojson"),
         content |-> FeatureCollection(Wgs84, <<Line(60, 0, 60, 120), Line(0, 120, 60, 120)>>)]
RivBad == [path |-> Path(<<"riv">>, <<"bad">>, ".geojson"), content |-> Garbage]
RivNotes == [path |-> Path(<<"riv">>, <<"notes">>, ".txt"), content |-> Garbage]
Disk == <<PtsA, PtsB, PtsY, RivR, RivBad, RivNotes>>

\* the sub-sequence of Disk at the positions in keep
RECURSIVE Pick(_, _, _)
Pick(disk, k, keep) ==
    IF k > Len(disk) THEN <<>>
    ELSE (IF k \in keep THEN <<disk[k]>> ELSE <<>>) \o Pick(disk, k + 1, keep)

\* ---- the main thread

Init ==
    /\ script \in {"spatial_layer_processor", "multithread_interesect_as_layer_bar"}
    /\ \E keep \in SUBSET (DOMAIN Disk) : fs = Pick(Disk, 1, keep)
    /\ \E v \in BOOLEAN :
          argv = [input_path |-> <<"pts">>, river_path |-> <<"riv">>,
                  save_path |-> <<"out">>, radius |-> Str(75 * MetersPerDegree),
                  verbose |-> v]
    /\ \E cpu_count \in 1..MaxCpu : max_workers = default_max_workers(cpu_count)
    /\ pc = "start"
    /\ verbose = FALSE
    /\ radius = None
    /\ files = <<>>
    /\ rivers = <<>>
    /\ total_tasks = 0
    /\ futures = <<>>
    /\ yielded = {}
    /\ pbar = 0
    /\ counted = <<>>
    /\ stdout = EmptyBag
    /\ outdir = EmptyDir
    /\ writes = {}
    /\ p_pc = "idle" /\ p_fs = <<>> /\ p_args = None /\ new_layer_name = <<>>
    /\ river_gdf = NoFrame /\ point_gdf = NoFrame /\ selected_rivers = <<>>
    /\ p_i = 0 /\ point = None /\ nearest_river = None /\ p_exc = None
    /\ p_outdir = EmptyDir

\* lines 184-200: args, list_files twice, makedirs, total_tasks.  The
\* intersection program takes no --radius.
MainSetup ==
    /\ pc = "start"
    /\ verbose' = argv.verbose
    /\ radius' = IF script = "spatial_layer_processor" THEN argv.radius ELSE None
    /\ files' = list_files(script, fs, argv.input_path)
    /\ rivers' = list_files(script, fs, argv.river_path)
    /\ total_tasks' = Len(files') * Len(rivers')
    /\ pc' = IF total_tasks' = 0 THEN "as_completed" ELSE "submit"
    /\ UNCHANGED <<script, fs, argv, max_workers, futures, yielded, pbar, counted,
                   stdout, outdir, writes>>

\* lines 207-211: the next pair of the nested loops, file outer, river inner
MainSubmit ==
    /\ pc = "submit"
    /\ LET n == Len(futures)
           file == files[(n \div Len(rivers)) + 1]
           river == rivers[(n % Len(rivers)) + 1]
       IN  /\ futures' = Append(futures, Future(river, file))
           /\ counted' = Append(counted, 0)
           /\ pc' = IF n + 1 = Len(files) * Len(rivers) THEN "as_completed" ELSE "submit"
    /\ UNCHANGED <<script, fs, argv, verbose, radius, files, rivers, total_tasks,
                   max_workers, yielded, pbar, stdout, outdir, writes>>

ErrorLine(e) == Line1("An error occurred", e)

\* lines 214-220 with the except clause cancelling what has not started
MainCollect_fail_fast(i) ==
    /\ pc = "as_completed"
    /\ i \in DOMAIN futures
    /\ Done(futures[i])
    /\ i \notin yielded
    /\ yielded' = yielded \cup {i}
    /\ stdout' = printed(stdout, verbose /\ futures[i].exc # None,
                         <<ErrorLine(futures[i].exc)>>)
    /\ futures' = IF futures[i].exc # None
                  THEN [k \in DOMAIN futures |->
                           IF futures[k].state = "pending"
                           THEN [futures[k] EXCEPT !.state = "cancelled"]
                           ELSE futures[k]]
                  ELSE futures
    /\ pbar' = pbar + 1
    /\ counted' = [counted EXCEPT ![i] = @ + 1]
    /\ UNCHANGED <<script, fs, argv, pc, verbose, radius, files, rivers, total_tasks,
                   max_workers, outdir, writes>>

\* lines 214-220 without the try/except: the exception leaves main
MainCollect_no_except(i) ==
    /\ pc = "as_completed"
    /\ i \in DOMAIN futures
    /\ Done(futures[i])
    /\ i \notin yielded
    /\ yielded' = yielded \cup {i}
    /\ IF futures[i].exc # None
       THEN pc' = "traceback" /\ UNCHANGED <<pbar, counted>>
       ELSE /\ pbar' = pbar + 1
            /\ counted' = [counted EXCEPT ![i] = @ + 1]
            /\ UNCHANGED pc
    /\ UNCHANGED <<script, fs, argv, verbose, radius, files, rivers, total_tasks,
                   max_workers, futures, stdout, outdir, writes>>

\* lines 214-220 with pbar.update() inside the try block
MainCollect_update_in_try(i) ==
    /\ pc = "as_completed"
    /\ i \in DOMAIN futures
    /\ Done(futures[i])
    /\ i \notin yielded
    /\ yielded' = yielded \cup {i}
    /\ stdout' = printed(stdout, verbose /\ futures[i].exc # None,
                         <<ErrorLine(futures[i].exc)>>)
    /\ pbar' = IF futures[i].exc = None THEN pbar + 1 ELSE pbar
    /\ counted' = IF futures[i].exc = None THEN [counted EXCEPT ![i] = @ + 1] ELSE counted
    /\ UNCHANGED <<script, fs, argv, pc, verbose, radius, files, rivers, total_tasks,
                   max_workers, futures, outdir, writes>>

\* lines 214-220: as_completed hands over a future that is done and was not
\* handed over before; result() re-raises the task's exception, which is
\* printed when verbose; pbar.update() in either case
MainCollect(i) ==
    /\ pc = "as_completed"
    /\ i \in DOMAIN futures
    /\ Done(futures[i])
    /\ i \notin yielded
    /\ yielded' = yielded \cup {i}
    /\ stdout' = printed(stdout, verbose /\ futures[i].exc # None,
                         <<ErrorLine(futures[i].exc)>>)
    /\ pbar' = pbar + 1
    /\ counted' = [counted EXCEPT ![i] = @ + 1]
    /\ UNCHANGED <<script, fs, argv, pc, verbose, radius, files, rivers, total_tasks,
                   max_workers, futures, outdir, writes>>

\* as_completed is exhausted; leaving the two with blocks closes the bar and
\* calls executor.shutdown(wait=True)
MainLeaveLoop ==
    /\ pc = "as_completed"
    /\ yielded = DOMAIN futures
    /\ pc' = "shutdown"
    /\ UNCHANGED <<script, fs, argv, verbose, radius, files, rivers, total_tasks,
                   max_workers, futures, yielded, pbar, counted, stdout, outdir, writes>>

\* shutdown(wait=True) returns when every worker has ended; lines 222-223
MainFinish ==
    /\ pc = "shutdown"
    /\ \A k \in DOMAIN futures : Done(futures[k])
    /\ stdout' = printed(stdout, verbose, <<Line1("Finished calculation", None)>>)
    /\ pc' = "done"
    /\ UNCHANGED <<script, fs, argv, verbose, radius, files, rivers, total_tasks,
                   max_workers, futures, yielded, pbar, counted, outdir, writes>>

\* ---- the executor's worker threads

Running == {k \in DOMAIN futures : futures[k].state = "running"}

\* a worker takes the oldest queued work item (the work queue is FIFO)
WorkerStart(i) ==
    /\ i \in DOMAIN futures
    /\ futures[i].state = "pending"
    /\ \A k \in 1..(i - 1) : futures[k].state # "pending"
    /\ Cardinality(Running) < max_workers
    /\ futures' = [futures EXCEPT ![i].state = "running"]
    /\ UNCHANGED <<script, fs, argv, pc, verbose, radius, files, rivers, total_tasks,
                   max_workers, yielded, pbar, counted, stdout, outdir, writes>>

\* the work item runs process_layers(river, file, save_path, radius) to its end
\* and sets the future's result or exception
WorkerRun(i) ==
    /\ i \in DOMAIN futures
    /\ futures[i].state = "running"
    /\ LET o == process_layers(script, fs, futures[i].river, futures[i].file,
                               argv.save_path, radius)
       IN  /\ futures' = [futures EXCEPT ![i].state = "finished", ![i].exc = o.exc,
                                         ![i].ended = o.ended]
           /\ outdir' = IF o.ended = "saved" THEN WriteFile(outdir, o.path, o.content)
                        ELSE outdir
           /\ writes' = IF o.ended = "saved"
                        THEN writes \cup {[task |-> i, path |-> o.path, content |-> o.content]}
                        ELSE writes
           /\ stdout' = printed(stdout, verbose, o.lines)
    /\ UNCHANGED <<script, fs, argv, pc, verbose, radius, files, rivers, total_tasks,
                   max_workers, yielded, pbar, counted>>

Next ==
    \/ MainSetup /\ UNCHANGED pvars
    \/ MainSubmit /\ UNCHANGED pvars
    \/ \E i \in DOMAIN futures : MainCollect(i) /\ UNCHANGED pvars
    \/ MainLeaveLoop /\ UNCHANGED pvars
    \/ MainFinish /\ UNCHANGED pvars
    \/ \E i \in DOMAIN futures : WorkerStart(i) /\ UNCHANGED pvars
    \/ \E i \in DOMAIN futures : WorkerRun(i) /\ UNCHANGED pvars

Spec == Init /\ [][Next]_vars

\* some thread that can run does run: the main thread and the pool's workers are
\* scheduled by the operating system
FairSpec == Spec /\ WF_vars(Next)

\* ------------------------------------------- properties of one call (PipeSpec)

\* the buffer the claim speaks of: radius max(degreesLat, degreesLon) around pt
ClaimBuffer(pt, radius_meters) ==
    LET conv == meters_to_degrees(radius_meters, pt.lo[2]).value
    IN  buffer(pt, Max2(conv.degrees_lat, conv.degrees_lon))

InRange(pt, rows, radius_meters) ==
    {k \in DOMAIN rows : intersects(rows[k].geometry, ClaimBuffer(pt, radius_meters))}

NearestDistance(pt, row) == distance(pt, nearest_points(pt, row.geometry))

\* what the claim requires of a result for pt
IsNearest(result, pt, rows, radius_meters) ==
    LET cand == InRange(pt, rows, radius_meters)
    IN  /\ (result = None) <=> (cand = {})
        /\ cand # {} =>
              \E k \in cand :
                  /\ result = rows[k]
                  /\ \A j \in cand :
                        /\ NearestDistance(pt, rows[k]) <= NearestDistance(pt, rows[j])
                        /\ NearestDistance(pt, rows[j]) = NearestDistance(pt, rows[k])
                              => k <= j

MatchedAPoint ==
    /\ p_pc \in {"for", "returned"}
    /\ p_i >= 1
    /\ point.type = "Point"
    /\ p_args.radius.kind = "float"

\* C7: the result of find_nearest_river is None exactly when no candidate
\* intersects the buffer of radius max(degreesLat, degreesLon) around the point;
\* otherwise it is a candidate in the buffer at minimal nearest-point distance,
\* and among several at that distance the first in collection order.
C7_NearestRiver ==
    MatchedAPoint => IsNearest(nearest_river, point, river_gdf.rows, p_args.radius)

\* C7 witness: two different candidates in the buffer tie at the minimal
\* distance and the earlier one is the result
C7_Witness ==
    /\ MatchedAPoint
    /\ \E j, k \in InRange(point, river_gdf.rows, p_args.radius) :
          /\ j < k
          /\ river_gdf.rows[j].geometry # river_gdf.rows[k].geometry
          /\ NearestDistance(point, river_gdf.rows[j]) = NearestDistance(point, river_gdf.rows[k])
          /\ NearestDistance(point, river_gdf.rows[j]) > 0
          /\ nearest_river = river_gdf.rows[j]

\* the river the claim requires for pt, None when no candidate is in range
RequiredMatch(pt, rows, radius_meters) ==
    LET cand == InRange(pt, rows, radius_meters)
    IN  IF cand = {} THEN None
        ELSE rows[CHOOSE k \in cand :
                     \A j \in cand :
                        \/ NearestDistance(pt, rows[k]) < NearestDistance(pt, rows[j])
                        \/ /\ NearestDistance(pt, rows[k]) = NearestDistance(pt, rows[j])
                           /\ k <= j]

RECURSIVE RequiredOutput(_, _, _)
RequiredOutput(pts, rows, radius_meters) ==
    IF pts = <<>> THEN <<>>
    ELSE LET m == IF Head(pts).geometry.type = "Point"
                  THEN RequiredMatch(Head(pts).geometry, rows, radius_meters)
                  ELSE None
         IN  (IF m = None THEN <<>> ELSE <<m.geometry>>)
                 \o RequiredOutput(Tail(pts), rows, radius_meters)

P_output_path == output_file_of(P_save_path, <<"p", "r">>)

CallEnded == p_pc \in {"returned", "raised"}

InputsLoad ==
    /\ p_fs[P_river_path] # Garbage
    /\ p_fs[P_point_path] # Garbage
    /\ p_fs[P_point_path].crs # CrsNone
    /\ p_args.radius.kind = "float"

\* C8: the written collection is the sequence of non-None find_nearest_river
\* results in point order, duplicates kept; when that sequence is empty the call
\* writes no file and returns normally.
C8_PipelineResult ==
    (CallEnded /\ InputsLoad) =>
        LET required == RequiredOutput(point_gdf.rows, river_gdf.rows, p_args.radius)
        IN  /\ p_pc = "returned"
            /\ p_exc = None
            /\ IF required = <<>>
               THEN p_outdir = EmptyDir
               ELSE /\ DOMAIN p_outdir = {P_output_path}
                    /\ p_outdir[P_output_path] = FeatureCollection(river_gdf.crs, required)

\* C8 witness: two points matched to different rivers, the later river of the
\* layer written first because its point comes first
C8_Witness ==
    /\ CallEnded /\ InputsLoad
    /\ Len(selected_rivers) = 2
    /\ selected_rivers[1].idx > selected_rivers[2].idx
    /\ P_output_path \in DOMAIN p_outdir

\* C9: the output file appears in one step, after the loop has consumed every
\* point, holding everything the loop selected; a call that raised (load, CRS,
\* matching) has written nothing.
C9_NoPartialOutput ==
    /\ p_pc # "returned" => p_outdir = EmptyDir
    /\ p_outdir # EmptyDir =>
          /\ p_i = Len(point_gdf.rows)
          /\ DOMAIN p_outdir = {P_output_path}
          /\ p_outdir[P_output_path].features =
                 [k \in DOMAIN selected_rivers |-> selected_rivers[k].geometry]
          /\ selected_rivers # <<>>

\* C9 witness: a call that failed while matching its second geometry (the first
\* was skipped) and left no file
C9_Witness ==
    /\ p_pc = "raised"
    /\ p_exc.type = "TypeError"
    /\ p_i = 2
    /\ p_outdir = EmptyDir


\* ---------------------------------------- properties of the batch run (Spec)

Tasks == DOMAIN futures
Ended(kind) == {i \in Tasks : futures[i].ended = kind}
Finished == {i \in Tasks : futures[i].state = "finished"}

\* what task i does when it is the only task of the batch
Alone(i) ==
    process_layers(script, fs, futures[i].river, futures[i].file, argv.save_path, radius)

\* C1: an exception of a task is caught at the task boundary; no sibling is
\* cancelled or kept from running; at the end of the batch every task has run to
\* its end, and every task that does not fail has ended and written exactly as it
\* does alone.
C1_FailureIsolation ==
    /\ \A i \in Tasks : futures[i].state \in {"pending", "running", "finished"}
    /\ pc \in {"start", "submit", "as_completed", "shutdown", "done"}
    /\ pc = "done" =>
          \A i \in Tasks :
              /\ futures[i].state = "finished"
              /\ futures[i].ended = Alone(i).ended
              /\ Alone(i).ended = "saved" =>
                    [task |-> i, path |-> Alone(i).path, content |-> Alone(i).content]
                        \in writes
              /\ Alone(i).ended # "saved" => \A w \in writes : w.task # i

\* C1 witness: the batch ended with a failed task submitted first and a task
\* submitted after it that wrote its file
C1_Witness ==
    /\ pc = "done"
    /\ \E i, j \in Tasks :
          /\ i < j
          /\ futures[i].ended = "raised"
          /\ futures[j].ended = "saved"
          /\ \E w \in writes : w.task = j

AllPairsDone ==
    /\ Len(futures) = Len(files) * Len(rivers)
    /\ \A f \in DOMAIN files, r \in DOMAIN rivers :
          \E i \in Tasks :
              /\ futures[i].file = files[f] /\ futures[i].river = rivers[r]
              /\ futures[i].state = "finished"
              /\ futures[i].ended \in {"saved", "empty", "raised"}
    /\ \A i \in Tasks : futures[i].state = "finished"

\* C2: main reaches its end only after every one of the len(files) x len(rivers)
\* tasks has completed (saved, empty or raised), and with the main thread and the
\* workers scheduled fairly it does reach its end.
C2_Barrier == [](pc = "done" => AllPairsDone) /\ <>(pc = "done")

\* C2 witness: the batch ended with tasks of all three outcomes
C2_Witness ==
    /\ pc = "done"
    /\ Ended("saved") # {} /\ Ended("empty") # {} /\ Ended("raised") # {}

RECURSIVE SumSeq(_)
SumSeq(q) == IF q = <<>> THEN 0 ELSE Head(q) + SumSeq(Tail(q))

\* C3: the progress counter is incremented once per task, failed or not, and
\* never before the task has completed; it never exceeds the number of completed
\* tasks and at the end of the batch it equals len(files) * len(rivers).
C3_ProgressAccounting ==
    /\ \A i \in Tasks : counted[i] <= 1
    /\ \A i \in Tasks : counted[i] = 1 => futures[i].state = "finished"
    /\ pbar = SumSeq(counted)
    /\ pbar <= Cardinality(Finished)
    /\ pc = "done" =>
          /\ \A i \in Tasks : counted[i] = 1
          /\ pbar = total_tasks
          /\ pbar = Len(files) * Len(rivers)

\* C3 witness: the batch ended, a failed task and a task that wrote a file are
\* both counted
C3_Witness ==
    /\ pc = "done"
    /\ \E i \in Ended("raised") : counted[i] = 1
    /\ \E j \in Ended("saved") : counted[j] = 1
    /\ pbar >= 4

\* C4: every task with a non-empty result writes its own file
\* "{point stem}_{river stem}.geojson"; no two tasks write the same path; at the
\* end there are as many output files as tasks with a non-empty result.
C4_OneFilePerPair ==
    /\ \A w \in writes :
          w.path = output_file_of(argv.save_path,
                       splitext_basename(futures[w.task].file)
                           \o splitext_basename(futures[w.task].river))
    /\ \A w1, w2 \in writes : w1.task # w2.task => w1.path # w2.path
    /\ pc = "done" => Cardinality(DOMAIN outdir) = Cardinality(Ended("saved"))

\* the output directory after tasks 1..k ran one at a time in submission order
RECURSIVE OneAtATime(_)
OneAtATime(k) ==
    IF k = 0 THEN EmptyDir
    ELSE IF Alone(k).ended = "saved"
    THEN WriteFile(OneAtATime(k - 1), Alone(k).path, Alone(k).content)
    ELSE OneAtATime(k - 1)

\* C5: at the end of the batch the output files and their contents are those of
\* running the tasks one at a time in submission order, whatever the interleaving.
C5_ConcurrencyIndependence ==
    pc = "done" => outdir = OneAtATime(Len(futures))

ErrorLines ==
    {l \in BagToSet(stdout) : l.text = "An error occurred"}
RecordedFailures ==
    LET F[S \in SUBSET ErrorLines] ==
            IF S = {} THEN 0
            ELSE LET l == CHOOSE x \in S : TRUE
                 IN  CopiesIn(l, stdout) + F[S \ {l}]
    IN  F[ErrorLines]

Unparseable(path) == content_of(fs, path) = Garbage

\* C6: at the end of the batch every task is in exactly one of saved, empty and
\* failed; as many failures are recorded as tasks failed, verbose or not; with
\* exactly one unparseable river file and parseable point files, len(files)
\* tasks are failures and the others are not.
C6_FailureReport ==
    pc = "done" =>
        /\ \A i \in Tasks : futures[i].ended \in {"saved", "empty", "raised"}
        /\ RecordedFailures = Cardinality(Ended("raised"))
        /\ Cardinality({r \in DOMAIN rivers : Unparseable(rivers[r])}) = 1
              => Cardinality(Ended("raised")) = Len(files)

\* what task i does when the radius is the number that --radius spells
WithNumericRadius(i) ==
    process_layers(script, fs, futures[i].river, futures[i].file, argv.save_path,
                   Float(argv.radius.value))

\* C10: in a batch of spatial_layer_processor.py every task gets the radius as
\* a number, no task ends with the TypeError of the radius conversion, and a
\* pair with a Point in range of a river ends with its output file.
C10_NumericRadius ==
    script = "spatial_layer_processor" =>
        \A i \in Finished :
            /\ radius.kind = "float"
            /\ futures[i].exc # None => futures[i].exc.type # "TypeError"
            /\ futures[i].ended = WithNumericRadius(i).ended

====
